---- MODULE Spec2Model ----
(***************************************************************************)
(* HdrHistogram (pkg/util/metric/hdrhistogram.go): a cumulative histogram  *)
(* and a ring of windowed sub-histograms behind one mutex, rotated lazily  *)
(* by a ticker, and the Prometheus exposition encoding of their bars.      *)
(*                                                                         *)
(* Threads call the public methods; a method is a call that gets past      *)
(* h.mu.Lock(), its body step(s), and the deferred Unlock with the return. *)
(* A thread blocked in Lock() is one that has not called yet.  Floating    *)
(* point arithmetic is exact here (a mean is kept as numerator and         *)
(* denominator).  The bucket layout is the HDR layout scaled down to one   *)
(* counts cell per power of two.                                           *)
(***************************************************************************)
EXTENDS Integers, Sequences, FiniteSets, TLC

\* ---------------------------------------------------------------- bounds
NumThreads == 2
MaxRecords == 2
MaxVal == 3
Duration == 2
MaxTime == 2
MaxBars == 3
MaxBarTo == 3
MaxBarCount == 2
MaxQuantDen == 2
MaxDepth == 1

\* ------------------------------------------------------------- constants
WindowedHistogramWrapNum == 2

Threads == 1..NumThreads
NoThread == 0
Values == (0 - 1)..(MaxVal + 1)
Slots == 0..(WindowedHistogramWrapNum - 1)

\* duration/WindowedHistogramWrapNum, the ticker's interval
TickInterval == Duration \div WindowedHistogramWrapNum

\* The maxVal a histogram can be constructed with.
ConfigMaxVals == (0 - 1)..MaxVal

\* h.maxVal: the maxVal NewHdrHistogram was given, which is also the highest
\* trackable value of the cumulative histogram and of every ring slot.
VARIABLE maxVal

\* ------------------------------------------------- hdrhistogram.Histogram
RECURSIVE BitLen(_)
BitLen(v) == IF v <= 0 THEN 0 ELSE 1 + BitLen(v \div 2)

RECURSIVE Pow2(_)
Pow2(n) == IF n <= 0 THEN 1 ELSE 2 * Pow2(n - 1)

\* The index of the counts cell a value falls in.
BucketOf(v) == BitLen(v)

Buckets == 0..BucketOf(MaxVal)

LowestEquivalentValue(b) == IF b = 0 THEN 0 ELSE Pow2(b - 1)

HighestEquivalentValue(b) == IF b = 0 THEN 0 ELSE Pow2(b) - 1

MedianEquivalentValue(b) ==
    LowestEquivalentValue(b)
      + ((HighestEquivalentValue(b) - LowestEquivalentValue(b) + 1) \div 2)

\* hdrhistogram.New(0, maxVal, sigFigs): all counts zero.
NewHist == [b \in Buckets |-> 0]

\* Histogram.RecordValue(v) returns an error, and records nothing, when v
\* is outside the trackable range.
HistRecordErr(v) == v < 0 \/ v > maxVal

HistInc(h, b) == [h EXCEPT ![b] = @ + 1]

RECURSIVE SumUpTo(_, _)
SumUpTo(h, b) == IF b < 0 THEN 0 ELSE h[b] + SumUpTo(h, b - 1)

TotalCount(h) == SumUpTo(h, BucketOf(MaxVal))

RECURSIVE WeightedUpTo(_, _)
WeightedUpTo(h, b) ==
    IF b < 0 THEN 0
    ELSE h[b] * MedianEquivalentValue(b) + WeightedUpTo(h, b - 1)

\* Histogram.Mean(): 0 when empty, else sum(count * median) / totalCount.
\* Kept as an exact fraction.
HistMean(h) ==
    IF TotalCount(h) = 0 THEN [num |-> 0, den |-> 1]
    ELSE [num |-> WeightedUpTo(h, BucketOf(MaxVal)), den |-> TotalCount(h)]

\* Histogram.Min(): lowest equivalent value of the first non-empty cell.
HistMin(h) ==
    IF TotalCount(h) = 0 THEN 0
    ELSE LowestEquivalentValue(
             CHOOSE b \in Buckets :
                 h[b] > 0 /\ \A c \in Buckets : c < b => h[c] = 0)

\* The highest non-empty cell, -1 when empty.
LastUsed(h) ==
    IF TotalCount(h) = 0 THEN 0 - 1
    ELSE CHOOSE b \in Buckets :
             h[b] > 0 /\ \A c \in Buckets : c > b => h[c] = 0

\* Histogram.Distribution(): one bar per cell, in ascending order, up to
\* the cell that holds the last recorded sample; empty cells included.
Distribution(h) ==
    [i \in 1..(LastUsed(h) + 1) |->
        [From |-> LowestEquivalentValue(i - 1),
         To |-> HighestEquivalentValue(i - 1),
         Count |-> h[i - 1]]]

HistMerge(h, g) == [b \in Buckets |-> h[b] + g[b]]

\* ----------------------------------------- hdrhistogram.WindowedHistogram
RECURSIVE MergeUpTo(_, _)
MergeUpTo(hs, i) ==
    IF i < 0 THEN NewHist ELSE HistMerge(MergeUpTo(hs, i - 1), hs[i])

\* WindowedHistogram.Merge(): the bucket-wise sum of every slot.
Merge(hs) == MergeUpTo(hs, WindowedHistogramWrapNum - 1)

\* WindowedHistogram.Rotate(): the next slot becomes Current and is reset.
RotateIdx(i) == (i + 1) % WindowedHistogramWrapNum

RotateSlots(hs, i) == [hs EXCEPT ![RotateIdx(i)] = NewHist]

\* ----------------------------------------------------------- tick.Ticker
\* Whether a rotation is due: a full interval has passed since the last.
IsDue(t, last) == t - last >= TickInterval

\* Ticker.NextTick()
NextTick(last) == last + TickInterval

\* ------------------------------------------------------------------ state
VARIABLES
    now,           \* the clock read by now()
    lastRotation,  \* h.mu.Ticker: the time of the last rotation
    cumulative,    \* h.mu.cumulative
    slots,         \* h.mu.sliding: the ring's histograms
    idx,           \* h.mu.sliding: index of Current in the ring
    lock,          \* h.mu.Mutex: the holder, or NoThread
    op,            \* per thread: the method it is in
    pc,            \* per thread: its position in that method
    arg,           \* per thread: the v of its RecordValue
    tmp,           \* per thread: counts loaded by an increment in progress
    ret,           \* per thread: the value its method is about to return
    calls,         \* RecordValue calls made
    returned,      \* RecordValue calls that have returned
    depth,         \* per thread: the Inspect calls whose closure it is in
    lastOp,        \* history: when the histogram was last touched
    rotsSinceRec,  \* history: rotations since a sample last went into the ring
    enc            \* a run of the exposition loops over given bars

hist == <<cumulative, slots, idx, lastRotation>>
history == <<lastOp, rotsSinceRec>>
threads == <<lock, op, pc, arg, tmp, ret, calls, returned, depth>>
vars == <<maxVal, now, hist, threads, history, enc>>

NoRet == [kind |-> "none"]

\* The state of a Prometheus histogram before the loop over the bars.
EmptyMetric == [kind |-> "metric", Bucket |-> <<>>, SampleCount |-> 0,
                SampleSum |-> 0]

\* The quantiles asked for: q = n / MaxQuantDen, for n in QuantNums.
QuantNums == 0..MaxQuantDen

Quantile(n) == [num |-> n, den |-> MaxQuantDen]

\* No quantile of the export asked for yet.
NotAsked == 0 - 1

\* No run of the exposition loops.
NoEnc == [bars |-> <<>>, n |-> 0, out |-> EmptyMetric, nw |-> 0,
          outw |-> EmptyMetric, quant |-> [n \in QuantNums |-> NotAsked]]

ReadOps == {"Total", "TotalWindowed", "Min", "Mean", "MeanWindowed",
            "NextTick", "ToPrometheusMetric", "ToPrometheusMetricWindowed"}

\* The methods that take the lock and do not record.
LockedOps == ReadOps \cup {"Tick", "Inspect"}

\* NewHdrHistogram(metadata, duration, m, sigFigs): maxVal is m, whatever
\* m is; an empty cumulative histogram, a ring of empty histograms whose
\* first slot is Current, and a ticker started at now().
NewHdrHistogram(m) ==
    /\ maxVal = m
    /\ now = 0
    /\ lastRotation = 0
    /\ cumulative = NewHist
    /\ slots = [i \in Slots |-> NewHist]
    /\ idx = 0
    /\ lock = NoThread
    /\ op = [t \in Threads |-> "none"]
    /\ pc = [t \in Threads |-> "idle"]
    /\ arg = [t \in Threads |-> 0]
    /\ tmp = [t \in Threads |-> NewHist]
    /\ ret = [t \in Threads |-> NoRet]
    /\ calls = 0
    /\ returned = 0
    /\ depth = [t \in Threads |-> 0]
    /\ lastOp = 0
    /\ rotsSinceRec = 0

Init == NewHdrHistogram(MaxVal) /\ enc = NoEnc

\* ------------------------------------------------------------ the mutex
\* Mutant: a Lock() that never waits.
MutexAlwaysFree == TRUE

\* Whether h.mu.Lock() can return.
MutexFree == lock = NoThread

\* A thread calls RecordValue(v) and gets past h.mu.Lock().
CallRecordValue(t, v) ==
    /\ pc[t] = "idle"
    /\ calls < MaxRecords
    /\ MutexFree
    /\ lock' = t
    /\ op' = [op EXCEPT ![t] = "RecordValue"]
    /\ pc' = [pc EXCEPT ![t] = "body"]
    /\ arg' = [arg EXCEPT ![t] = v]
    /\ calls' = calls + 1
    /\ UNCHANGED <<maxVal, depth>>
    /\ UNCHANGED <<now, hist, tmp, ret, returned>>

\* A thread calls another method and gets past h.mu.Lock().
Call(t, o) ==
    /\ pc[t] = "idle"
    /\ MutexFree
    /\ lock' = t
    /\ op' = [op EXCEPT ![t] = o]
    /\ pc' = [pc EXCEPT ![t] = "body"]
    /\ UNCHANGED <<maxVal, depth>>
    /\ UNCHANGED <<now, hist, arg, tmp, ret, calls, returned>>

\* defer h.mu.Unlock(), and the return
Unlock(t) ==
    /\ pc[t] = "unlock"
    /\ lock' = NoThread
    /\ pc' = [pc EXCEPT ![t] = "idle"]
    /\ op' = [op EXCEPT ![t] = "none"]
    /\ arg' = [arg EXCEPT ![t] = 0]
    /\ ret' = [ret EXCEPT ![t] = NoRet]
    /\ returned' = IF op[t] = "RecordValue" THEN returned + 1 ELSE returned
    /\ UNCHANGED <<maxVal, depth>>
    /\ UNCHANGED <<now, hist, tmp, calls>>

\* ---------------------------------------------------------- RecordValue
\* Histogram.RecordValue(v) on h: nothing is recorded on an error.
HistRecordValue(h, v) == IF HistRecordErr(v) THEN h ELSE HistInc(h, BucketOf(v))

\* Mutant: an out-of-range value is recorded as 0, not as maxVal.
RecordValueIntoZero(h, v) ==
    IF HistRecordErr(v) THEN HistRecordValue(h, 0) ELSE HistRecordValue(h, v)

\* Mutant: the error is ignored and the sample dropped.
RecordValueIntoDrop(h, v) == HistRecordValue(h, v)

\* if h.RecordValue(v) != nil { _ = h.RecordValue(maxVal) }
RecordValueInto(h, v) ==
    IF HistRecordErr(v) THEN HistRecordValue(h, maxVal)
    ELSE HistRecordValue(h, v)

\* Mutant: RecordValue starts with tick.MaybeTick, as the exports do.
RecordValueSlidingTicks(t) ==
    /\ op[t] = "RecordValue" /\ pc[t] = "body"
    /\ idx' = IF IsDue(now, lastRotation) THEN RotateIdx(idx) ELSE idx
    /\ lastRotation' = IF IsDue(now, lastRotation) THEN now ELSE lastRotation
    /\ slots' = [(IF IsDue(now, lastRotation) THEN RotateSlots(slots, idx)
                                              ELSE slots)
                    EXCEPT ![idx'] = RecordValueInto(@, arg[t])]
    /\ tmp' = [tmp EXCEPT ![t] = cumulative]
    /\ pc' = [pc EXCEPT ![t] = "cumStore"]
    /\ UNCHANGED <<maxVal, depth>>
    /\ UNCHANGED <<now, cumulative, lock, op, arg, ret, calls, returned>>

\* Mutant: the sample goes into the slot after Current.
RecordValueSlidingNext(t) ==
    /\ op[t] = "RecordValue" /\ pc[t] = "body"
    /\ slots' = [slots EXCEPT ![RotateIdx(idx)] = RecordValueInto(@, arg[t])]
    /\ tmp' = [tmp EXCEPT ![t] = cumulative]
    /\ pc' = [pc EXCEPT ![t] = "cumStore"]
    /\ UNCHANGED <<maxVal, depth>>
    /\ UNCHANGED <<now, lastRotation, cumulative, idx, lock, op, arg, ret,
                   calls, returned>>

\* h.mu.sliding.Current.RecordValue, and the start of
\* h.mu.cumulative.RecordValue: its counts are read ...
RecordValueSliding(t) ==
    /\ op[t] = "RecordValue" /\ pc[t] = "body"
    /\ slots' = [slots EXCEPT ![idx] = RecordValueInto(@, arg[t])]
    /\ tmp' = [tmp EXCEPT ![t] = cumulative]
    /\ pc' = [pc EXCEPT ![t] = "cumStore"]
    /\ UNCHANGED <<maxVal, depth>>
    /\ UNCHANGED <<now, lastRotation, cumulative, idx, lock, op, arg, ret,
                   calls, returned>>

\* Mutant: the cumulative histogram drops a value it rejects.
RecordValueCumulativeDrops(t) ==
    /\ op[t] = "RecordValue" /\ pc[t] = "cumStore"
    /\ cumulative' = HistRecordValue(tmp[t], arg[t])
    /\ tmp' = [tmp EXCEPT ![t] = NewHist]
    /\ pc' = [pc EXCEPT ![t] = "unlock"]
    /\ UNCHANGED <<maxVal, depth>>
    /\ UNCHANGED <<now, lastRotation, slots, idx, lock, op, arg, ret, calls,
                   returned>>

\* ... and written back incremented.
RecordValueCumulative(t) ==
    /\ op[t] = "RecordValue" /\ pc[t] = "cumStore"
    /\ cumulative' = RecordValueInto(tmp[t], arg[t])
    /\ tmp' = [tmp EXCEPT ![t] = NewHist]
    /\ pc' = [pc EXCEPT ![t] = "unlock"]
    /\ UNCHANGED <<maxVal, depth>>
    /\ UNCHANGED <<now, lastRotation, slots, idx, lock, op, arg, ret, calls,
                   returned>>

\* ------------------------------------------------------------- rotation
\* Mutant: the rotation clears every slot.
RotatedClearsAll ==
    [slots |-> [i \in Slots |-> NewHist], idx |-> RotateIdx(idx)]

\* The ring after the ticker's onTick callback, wHist.Rotate().
Rotated == [slots |-> RotateSlots(slots, idx), idx |-> RotateIdx(idx)]

\* A method that does not consult the ticker.
NoTick == [slots |-> slots, idx |-> idx, last |-> lastRotation]

\* tick.MaybeTick(h.mu.Ticker): one Tick when a rotation is due.
MaybeTick ==
    IF IsDue(now, lastRotation)
    THEN [slots |-> Rotated.slots, idx |-> Rotated.idx, last |-> now]
    ELSE NoTick

\* HdrHistogram.Tick: h.mu.Tick() moves the ticker on ...
TickTicker(t) ==
    /\ op[t] = "Tick" /\ pc[t] = "body"
    /\ lastRotation' = now
    /\ pc' = [pc EXCEPT ![t] = "rotate"]
    /\ UNCHANGED <<maxVal, depth>>
    /\ UNCHANGED <<now, cumulative, slots, idx, lock, op, arg, tmp, ret,
                   calls, returned>>

\* Mutant: Tick rotates only when MaybeTick would.
TickRotateWhenDue(t) ==
    /\ op[t] = "Tick" /\ pc[t] = "rotate"
    /\ slots' = MaybeTick.slots
    /\ idx' = MaybeTick.idx
    /\ pc' = [pc EXCEPT ![t] = "unlock"]
    /\ UNCHANGED <<maxVal, depth>>
    /\ UNCHANGED <<now, lastRotation, cumulative, lock, op, arg, tmp, ret,
                   calls, returned>>

\* Mutant: the rotation resets the cumulative histogram too.
TickRotateResetsCumulative(t) ==
    /\ op[t] = "Tick" /\ pc[t] = "rotate"
    /\ slots' = Rotated.slots
    /\ idx' = Rotated.idx
    /\ cumulative' = NewHist
    /\ pc' = [pc EXCEPT ![t] = "unlock"]
    /\ UNCHANGED <<maxVal, depth>>
    /\ UNCHANGED <<now, lastRotation, lock, op, arg, tmp, ret, calls, returned>>

\* ... and runs onTick, which rotates the ring.
TickRotate(t) ==
    /\ op[t] = "Tick" /\ pc[t] = "rotate"
    /\ slots' = Rotated.slots
    /\ idx' = Rotated.idx
    /\ pc' = [pc EXCEPT ![t] = "unlock"]
    /\ UNCHANGED <<maxVal, depth>>
    /\ UNCHANGED <<now, lastRotation, cumulative, lock, op, arg, tmp, ret,
                   calls, returned>>

\* Mutant: Inspect ticks whether or not a rotation is due.
InspectAlwaysTicks(t) ==
    /\ op[t] = "Inspect" /\ pc[t] = "body"
    /\ slots' = Rotated.slots
    /\ idx' = Rotated.idx
    /\ lastRotation' = now
    /\ pc' = [pc EXCEPT ![t] = "unlock"]
    /\ UNCHANGED <<maxVal, depth>>
    /\ UNCHANGED <<now, cumulative, lock, op, arg, tmp, ret, calls, returned>>

\* HdrHistogram.Inspect: tick.MaybeTick under the lock.  The closure f(h)
\* runs after the Unlock, as the caller's code does.
Inspect(t) ==
    /\ op[t] = "Inspect" /\ pc[t] = "body"
    /\ slots' = MaybeTick.slots
    /\ idx' = MaybeTick.idx
    /\ lastRotation' = MaybeTick.last
    /\ pc' = [pc EXCEPT ![t] = "unlock"]
    /\ UNCHANGED <<maxVal, depth>>
    /\ UNCHANGED <<now, cumulative, lock, op, arg, tmp, ret, calls, returned>>

\* Mutant: the lock is still held when the closure is called.
InspectUnlockKeepsLock(t) ==
    /\ op[t] = "Inspect" /\ pc[t] = "unlock"
    /\ pc' = [pc EXCEPT ![t] = "callback"]
    /\ depth' = [depth EXCEPT ![t] = @ + 1]
    /\ UNCHANGED <<maxVal, now, hist, lock, op, arg, tmp, ret, calls,
                   returned>>

\* Inspect: the deferred Unlock of its locked section, after which f(h) is
\* called.
InspectUnlock(t) ==
    /\ op[t] = "Inspect" /\ pc[t] = "unlock"
    /\ lock' = NoThread
    /\ pc' = [pc EXCEPT ![t] = "callback"]
    /\ depth' = [depth EXCEPT ![t] = @ + 1]
    /\ UNCHANGED <<maxVal, now, hist, op, arg, tmp, ret, calls, returned>>

\* The closure f(h) calls RecordValue(v) on h and gets past h.mu.Lock().
CallbackCallRecordValue(t, v) ==
    /\ pc[t] = "callback"
    /\ calls < MaxRecords
    /\ MutexFree
    /\ lock' = t
    /\ op' = [op EXCEPT ![t] = "RecordValue"]
    /\ pc' = [pc EXCEPT ![t] = "body"]
    /\ arg' = [arg EXCEPT ![t] = v]
    /\ calls' = calls + 1
    /\ UNCHANGED <<maxVal, now, hist, tmp, ret, returned, depth>>

\* The closure f(h) calls another method of h and gets past h.mu.Lock();
\* the method may be Inspect again, MaxDepth closures deep at most.
CallbackCall(t, o) ==
    /\ pc[t] = "callback"
    /\ o = "Inspect" => depth[t] < MaxDepth
    /\ MutexFree
    /\ lock' = t
    /\ op' = [op EXCEPT ![t] = o]
    /\ pc' = [pc EXCEPT ![t] = "body"]
    /\ UNCHANGED <<maxVal, now, hist, arg, tmp, ret, calls, returned, depth>>

\* The deferred Unlock and the return of a method the closure called: the
\* thread is back in f(h).
CallbackUnlock(t) ==
    /\ pc[t] = "unlock" /\ op[t] # "Inspect" /\ depth[t] > 0
    /\ lock' = NoThread
    /\ pc' = [pc EXCEPT ![t] = "callback"]
    /\ op' = [op EXCEPT ![t] = "Inspect"]
    /\ arg' = [arg EXCEPT ![t] = 0]
    /\ ret' = [ret EXCEPT ![t] = NoRet]
    /\ returned' = IF op[t] = "RecordValue" THEN returned + 1 ELSE returned
    /\ UNCHANGED <<maxVal, now, hist, tmp, calls, depth>>

\* f(h) returns, and with it Inspect: to the closure that called it, or to
\* the caller.
CallbackReturn(t) ==
    /\ pc[t] = "callback"
    /\ depth' = [depth EXCEPT ![t] = @ - 1]
    /\ pc' = [pc EXCEPT ![t] = IF depth[t] > 1 THEN "callback" ELSE "idle"]
    /\ op' = [op EXCEPT ![t] = IF depth[t] > 1 THEN "Inspect" ELSE "none"]
    /\ UNCHANGED <<maxVal, now, hist, lock, arg, tmp, ret, calls, returned>>

\* HdrHistogram.NextTick: the ticker's next tick time.
NextTickResult(last) == [kind |-> "time", time |-> NextTick(last)]

HdrHistogramNextTick(t) ==
    /\ op[t] = "NextTick" /\ pc[t] = "body"
    /\ ret' = [ret EXCEPT ![t] = NextTickResult(lastRotation)]
    /\ pc' = [pc EXCEPT ![t] = "unlock"]
    /\ UNCHANGED <<maxVal, depth>>
    /\ UNCHANGED <<now, hist, lock, op, arg, tmp, calls, returned>>

\* ---------------------------------------------------------------- reads
\* HdrHistogram.Total: the count, and count * mean as the sum.
TotalResult(h) ==
    [kind |-> "total", count |-> TotalCount(h),
     sum |-> (TotalCount(h) * HistMean(h).num) \div HistMean(h).den]

Total(t) ==
    /\ op[t] = "Total" /\ pc[t] = "body"
    /\ ret' = [ret EXCEPT ![t] = TotalResult(cumulative)]
    /\ pc' = [pc EXCEPT ![t] = "unlock"]
    /\ UNCHANGED <<maxVal, depth>>
    /\ UNCHANGED <<now, hist, lock, op, arg, tmp, calls, returned>>

\* HdrHistogram.Min: the minimum of the cumulative histogram.
MinResult(h) == [kind |-> "min", min |-> HistMin(h)]

Min(t) ==
    /\ op[t] = "Min" /\ pc[t] = "body"
    /\ ret' = [ret EXCEPT ![t] = MinResult(cumulative)]
    /\ pc' = [pc EXCEPT ![t] = "unlock"]
    /\ UNCHANGED <<maxVal, depth>>
    /\ UNCHANGED <<now, hist, lock, op, arg, tmp, calls, returned>>

\* HdrHistogram.Mean: the mean of the cumulative histogram.
MeanResult(h) == [kind |-> "mean", mean |-> HistMean(h)]

Mean(t) ==
    /\ op[t] = "Mean" /\ pc[t] = "body"
    /\ ret' = [ret EXCEPT ![t] = MeanResult(cumulative)]
    /\ pc' = [pc EXCEPT ![t] = "unlock"]
    /\ UNCHANGED <<maxVal, depth>>
    /\ UNCHANGED <<now, hist, lock, op, arg, tmp, calls, returned>>

\* What HdrHistogram.TotalWindowed does to the ticker and the ring before
\* it merges: nothing.
TotalWindowedTick == NoTick

\* Mutant: only the Current slot is counted.
TotalWindowedResultCurrent(hs) == TotalResult(hs[idx])

\* Mutant: the totals are taken from the cumulative histogram.
TotalWindowedResultCumulative(hs) == TotalResult(cumulative)

\* HdrHistogram.TotalWindowed: the totals of the merged ring.
TotalWindowedResult(hs) == TotalResult(Merge(hs))

TotalWindowed(t) ==
    /\ op[t] = "TotalWindowed" /\ pc[t] = "body"
    /\ slots' = TotalWindowedTick.slots
    /\ idx' = TotalWindowedTick.idx
    /\ lastRotation' = TotalWindowedTick.last
    /\ ret' = [ret EXCEPT ![t] = TotalWindowedResult(slots')]
    /\ pc' = [pc EXCEPT ![t] = "unlock"]
    /\ UNCHANGED <<maxVal, depth>>
    /\ UNCHANGED <<now, cumulative, lock, op, arg, tmp, calls, returned>>

\* What HdrHistogram.MeanWindowed does to the ticker and the ring before it
\* merges: nothing.
MeanWindowedTick == NoTick

\* Mutant: the mean is taken from the cumulative histogram.
MeanWindowedResultCumulative(hs) ==
    [kind |-> "mean", mean |-> HistMean(cumulative)]

\* HdrHistogram.MeanWindowed: the mean of the merged ring.
MeanWindowedResult(hs) == [kind |-> "mean", mean |-> HistMean(Merge(hs))]

\* Mutant: the merge accumulates into the Current slot.
MeanWindowedMergesInPlace(t) ==
    /\ op[t] = "MeanWindowed" /\ pc[t] = "body"
    /\ slots' = [slots EXCEPT ![idx] = Merge(slots)]
    /\ ret' = [ret EXCEPT ![t] = MeanWindowedResult(slots)]
    /\ pc' = [pc EXCEPT ![t] = "unlock"]
    /\ UNCHANGED <<maxVal, depth>>
    /\ UNCHANGED <<now, lastRotation, cumulative, idx, lock, op, arg, tmp,
                   calls, returned>>

MeanWindowed(t) ==
    /\ op[t] = "MeanWindowed" /\ pc[t] = "body"
    /\ slots' = MeanWindowedTick.slots
    /\ idx' = MeanWindowedTick.idx
    /\ lastRotation' = MeanWindowedTick.last
    /\ ret' = [ret EXCEPT ![t] = MeanWindowedResult(slots')]
    /\ pc' = [pc EXCEPT ![t] = "unlock"]
    /\ UNCHANGED <<maxVal, depth>>
    /\ UNCHANGED <<now, cumulative, lock, op, arg, tmp, calls, returned>>

\* ------------------------------------------------------------ exposition
\* Mutant: the bucket holds the bar's own count, not the running count.
EncodeBarNotCumulative(m, bar) ==
    IF bar.Count = 0 THEN m
    ELSE [kind |-> "metric",
          Bucket |-> Append(m.Bucket,
                            [CumulativeCount |-> bar.Count,
                             UpperBound |-> bar.To]),
          SampleCount |-> m.SampleCount + bar.Count,
          SampleSum |-> m.SampleSum + bar.To * bar.Count]

\* One iteration of the loop over bars: a bar with Count 0 is skipped,
\* any other adds upperBound * Count to sum, Count to cumCount, and
\* appends a bucket holding the new cumCount and the bar's upper bound.
EncodeBar(m, bar) ==
    IF bar.Count = 0 THEN m
    ELSE [kind |-> "metric",
          Bucket |-> Append(m.Bucket,
                            [CumulativeCount |-> m.SampleCount + bar.Count,
                             UpperBound |-> bar.To]),
          SampleCount |-> m.SampleCount + bar.Count,
          SampleSum |-> m.SampleSum + bar.To * bar.Count]

\* The loop of ToPrometheusMetric over bars[1..n].
RECURSIVE EncodeUpTo(_, _)
EncodeUpTo(bars, n) ==
    IF n = 0 THEN EmptyMetric
    ELSE EncodeBar(EncodeUpTo(bars, n - 1), bars[n])

EncodeBars(bars) == EncodeUpTo(bars, Len(bars))

\* Mutant: bars with Count 0 are emitted too.
EncodeBarWindowedKeepsZero(m, bar) ==
    [kind |-> "metric",
     Bucket |-> Append(m.Bucket,
                       [CumulativeCount |-> m.SampleCount + bar.Count,
                        UpperBound |-> bar.To]),
     SampleCount |-> m.SampleCount + bar.Count,
     SampleSum |-> m.SampleSum + bar.To * bar.Count]

\* One iteration of the loop of toPrometheusMetricWindowedLocked.
EncodeBarWindowed(m, bar) ==
    IF bar.Count = 0 THEN m
    ELSE [kind |-> "metric",
          Bucket |-> Append(m.Bucket,
                            [CumulativeCount |-> m.SampleCount + bar.Count,
                             UpperBound |-> bar.To]),
          SampleCount |-> m.SampleCount + bar.Count,
          SampleSum |-> m.SampleSum + bar.To * bar.Count]

\* The loop of toPrometheusMetricWindowedLocked over bars[1..n].
RECURSIVE EncodeWindowedUpTo(_, _)
EncodeWindowedUpTo(bars, n) ==
    IF n = 0 THEN EmptyMetric
    ELSE EncodeBarWindowed(EncodeWindowedUpTo(bars, n - 1), bars[n])

EncodeBarsWindowed(bars) == EncodeWindowedUpTo(bars, Len(bars))

\* Mutant: the bars of the merged ring are encoded.
PrometheusBarsOfRing(h) == Distribution(Merge(slots))

\* The bars ToPrometheusMetric encodes: h.mu.cumulative.Distribution().
PrometheusBars(h) == Distribution(h)

\* HdrHistogram.ToPrometheusMetric: MaybeTick, then the cumulative bars,
\* encoded.
ToPrometheusMetric(t) ==
    /\ op[t] = "ToPrometheusMetric" /\ pc[t] = "body"
    /\ slots' = MaybeTick.slots
    /\ idx' = MaybeTick.idx
    /\ lastRotation' = MaybeTick.last
    /\ ret' = [ret EXCEPT ![t] = EncodeBars(PrometheusBars(cumulative))]
    /\ pc' = [pc EXCEPT ![t] = "unlock"]
    /\ UNCHANGED <<maxVal, depth>>
    /\ UNCHANGED <<now, cumulative, lock, op, arg, tmp, calls, returned>>

\* The bars toPrometheusMetricWindowedLocked encodes:
\* h.mu.sliding.Merge().Distribution().
PrometheusBarsWindowed(hs) == Distribution(Merge(hs))

\* HdrHistogram.ToPrometheusMetricWindowed: MaybeTick, then the bars of
\* the merged ring, encoded.
ToPrometheusMetricWindowed(t) ==
    /\ op[t] = "ToPrometheusMetricWindowed" /\ pc[t] = "body"
    /\ slots' = MaybeTick.slots
    /\ idx' = MaybeTick.idx
    /\ lastRotation' = MaybeTick.last
    /\ ret' = [ret EXCEPT ![t] =
                  EncodeBarsWindowed(PrometheusBarsWindowed(slots'))]
    /\ pc' = [pc EXCEPT ![t] = "unlock"]
    /\ UNCHANGED <<maxVal, depth>>
    /\ UNCHANGED <<now, cumulative, lock, op, arg, tmp, calls, returned>>

\* ---------------------------------------------------------------- time
\* The clock moves on.
Advance ==
    /\ now < MaxTime
    /\ now' = now + 1
    /\ UNCHANGED <<maxVal, depth>>
    /\ UNCHANGED <<hist, lock, op, pc, arg, tmp, ret, calls, returned>>

\* Any number of threads on one histogram.
Next ==
    \/ Advance /\ UNCHANGED <<history, enc>>
    \/ \E t \in Threads :
        \/ \E v \in Values :
              CallRecordValue(t, v) /\ UNCHANGED <<history, enc>>
        \/ \E o \in LockedOps :
              Call(t, o) /\ UNCHANGED <<history, enc>>
        \/ RecordValueSliding(t) /\ UNCHANGED <<history, enc>>
        \/ RecordValueCumulative(t) /\ UNCHANGED <<history, enc>>
        \/ TickTicker(t) /\ UNCHANGED <<history, enc>>
        \/ TickRotate(t) /\ UNCHANGED <<history, enc>>
        \/ Inspect(t) /\ UNCHANGED <<history, enc>>
        \/ HdrHistogramNextTick(t) /\ UNCHANGED <<history, enc>>
        \/ Mean(t) /\ UNCHANGED <<history, enc>>
        \/ Min(t) /\ UNCHANGED <<history, enc>>
        \/ Total(t) /\ UNCHANGED <<history, enc>>
        \/ TotalWindowed(t) /\ UNCHANGED <<history, enc>>
        \/ MeanWindowed(t) /\ UNCHANGED <<history, enc>>
        \/ ToPrometheusMetric(t) /\ UNCHANGED <<history, enc>>
        \/ ToPrometheusMetricWindowed(t) /\ UNCHANGED <<history, enc>>
        \/ Unlock(t) /\ UNCHANGED <<history, enc>>

Spec == Init /\ [][Next]_vars

\* ------------------------------------ threads, with Inspect's closures
\* A step of a method t has the lock for, up to its deferred Unlock.
Locked(t) ==
    \/ RecordValueSliding(t) /\ UNCHANGED <<history, enc>>
    \/ RecordValueCumulative(t) /\ UNCHANGED <<history, enc>>
    \/ TickTicker(t) /\ UNCHANGED <<history, enc>>
    \/ TickRotate(t) /\ UNCHANGED <<history, enc>>
    \/ Inspect(t) /\ UNCHANGED <<history, enc>>
    \/ HdrHistogramNextTick(t) /\ UNCHANGED <<history, enc>>
    \/ Mean(t) /\ UNCHANGED <<history, enc>>
    \/ Min(t) /\ UNCHANGED <<history, enc>>
    \/ Total(t) /\ UNCHANGED <<history, enc>>
    \/ TotalWindowed(t) /\ UNCHANGED <<history, enc>>
    \/ MeanWindowed(t) /\ UNCHANGED <<history, enc>>
    \/ ToPrometheusMetric(t) /\ UNCHANGED <<history, enc>>
    \/ ToPrometheusMetricWindowed(t) /\ UNCHANGED <<history, enc>>
    \/ (Unlock(t) /\ op[t] # "Inspect" /\ depth[t] = 0)
          /\ UNCHANGED <<history, enc>>
    \/ InspectUnlock(t) /\ UNCHANGED <<history, enc>>
    \/ CallbackUnlock(t) /\ UNCHANGED <<history, enc>>

\* Any number of threads on one histogram, the closures they hand to
\* Inspect calling its methods too.
NextLive ==
    \/ Advance /\ UNCHANGED <<history, enc>>
    \/ \E t \in Threads :
        \/ \E v \in Values :
              CallRecordValue(t, v) /\ UNCHANGED <<history, enc>>
        \/ \E o \in LockedOps :
              Call(t, o) /\ UNCHANGED <<history, enc>>
        \/ \E v \in Values :
              CallbackCallRecordValue(t, v) /\ UNCHANGED <<history, enc>>
        \/ \E o \in LockedOps :
              CallbackCall(t, o) /\ UNCHANGED <<history, enc>>
        \/ CallbackReturn(t) /\ UNCHANGED <<history, enc>>
        \/ Locked(t)

\* The thread that has the lock is not blocked and goes on running.
SpecLive ==
    Init /\ [][NextLive]_vars /\ WF_vars(\E t \in Threads : Locked(t))

\* ------------------------------------------- one caller, with its history
\* The step touches the histogram now.
Touch == lastOp' = now

\* The step rotates the ring iff it moves Current.
CountRotation ==
    rotsSinceRec' = IF idx' = idx THEN rotsSinceRec
                    ELSE IF rotsSinceRec < WindowedHistogramWrapNum
                         THEN rotsSinceRec + 1
                         ELSE rotsSinceRec

\* A single thread calling the methods one after the other; lastOp and
\* rotsSinceRec record what it did.  A call touches the histogram from its
\* first body step to its return.
NextSeq ==
    \/ Advance /\ UNCHANGED <<history, enc>>
    \/ \E v \in Values : CallRecordValue(1, v) /\ UNCHANGED <<history, enc>>
    \/ \E o \in LockedOps :
          Call(1, o) /\ UNCHANGED <<history, enc>>
    \/ RecordValueSliding(1) /\ Touch /\ rotsSinceRec' = 0 /\ UNCHANGED enc
    \/ RecordValueCumulative(1) /\ Touch /\ UNCHANGED <<rotsSinceRec, enc>>
    \/ TickTicker(1) /\ Touch /\ UNCHANGED <<rotsSinceRec, enc>>
    \/ TickRotate(1) /\ Touch /\ CountRotation /\ UNCHANGED enc
    \/ Inspect(1) /\ Touch /\ CountRotation /\ UNCHANGED enc
    \/ HdrHistogramNextTick(1) /\ Touch /\ UNCHANGED <<rotsSinceRec, enc>>
    \/ Mean(1) /\ Touch /\ UNCHANGED <<rotsSinceRec, enc>>
    \/ Min(1) /\ Touch /\ UNCHANGED <<rotsSinceRec, enc>>
    \/ Total(1) /\ Touch /\ UNCHANGED <<rotsSinceRec, enc>>
    \/ TotalWindowed(1) /\ Touch /\ CountRotation /\ UNCHANGED enc
    \/ MeanWindowed(1) /\ Touch /\ CountRotation /\ UNCHANGED enc
    \/ ToPrometheusMetric(1) /\ Touch /\ CountRotation /\ UNCHANGED enc
    \/ ToPrometheusMetricWindowed(1) /\ Touch /\ CountRotation
          /\ UNCHANGED enc
    \/ Unlock(1) /\ Touch /\ UNCHANGED <<rotsSinceRec, enc>>

SpecSeq == Init /\ [][NextSeq]_vars

\* --------------------------------------- one caller, any configuration
\* NewHdrHistogram returns a histogram for every maxVal it is given.
InitNew == \E m \in ConfigMaxVals : NewHdrHistogram(m) /\ enc = NoEnc

SpecNew == InitNew /\ [][NextSeq]_vars

\* ------------------------------------------------- quantile from export
\* ValueAtQuantileWindowed(histogram, q): 0 when there is no sample, else
\* the upper bound of the first bucket whose cumulative count is at least
\* the fraction q of the sample count.
ValueAtQuantileWindowed(histogram, q) ==
    IF histogram.SampleCount = 0 THEN 0
    ELSE LET reached(i) ==
                 histogram.Bucket[i].CumulativeCount * q.den
                     >= q.num * histogram.SampleCount
             b == CHOOSE i \in DOMAIN histogram.Bucket :
                      reached(i) /\ \A j \in 1..(i - 1) : ~reached(j)
         IN  histogram.Bucket[b].UpperBound

\* Mutant: the quantile asked of the export is always 0.
HdrHistogramValueAtQuantileWindowedZero(q, window) ==
    ValueAtQuantileWindowed(window, [num |-> 0, den |-> 1])

\* HdrHistogram.ValueAtQuantileWindowed(q, window)
HdrHistogramValueAtQuantileWindowed(q, window) ==
    ValueAtQuantileWindowed(window, q)

\* ------------------------------------------ the exposition loops by hand
Bars == [From : {0}, To : 0..MaxBarTo, Count : 0..MaxBarCount]

\* Every sequence of up to MaxBars bars in ascending order of upper bound.
AscendingBars ==
    {s \in UNION {[1..n -> Bars] : n \in 0..MaxBars} :
        \A i \in DOMAIN s : \A j \in DOMAIN s : i < j => s[i].To < s[j].To}

InitEnc ==
    /\ NewHdrHistogram(MaxVal)
    /\ \E s \in AscendingBars : enc = [NoEnc EXCEPT !.bars = s]

\* The next iteration of the loop of ToPrometheusMetric.
EncodeIter ==
    /\ enc.n < Len(enc.bars)
    /\ enc' = [enc EXCEPT !.n = @ + 1,
                          !.out = EncodeBar(@, enc.bars[enc.n + 1])]
    /\ UNCHANGED <<maxVal, depth>>
    /\ UNCHANGED <<now, hist, threads, history>>

\* The next iteration of the loop of toPrometheusMetricWindowedLocked.
EncodeIterWindowed ==
    /\ enc.nw < Len(enc.bars)
    /\ enc' = [enc EXCEPT !.nw = @ + 1,
                          !.outw = EncodeBarWindowed(@, enc.bars[enc.nw + 1])]
    /\ UNCHANGED <<maxVal, depth>>
    /\ UNCHANGED <<now, hist, threads, history>>

\* A quantile is asked of the windowed export, once its loop is through.
QuantileOfExport ==
    /\ enc.nw = Len(enc.bars)
    /\ \E n \in QuantNums :
          /\ enc.quant[n] = NotAsked
          /\ enc' = [enc EXCEPT !.quant[n] =
                        HdrHistogramValueAtQuantileWindowed(Quantile(n),
                                                            enc.outw)]
    /\ UNCHANGED <<maxVal, depth>>
    /\ UNCHANGED <<now, hist, threads, history>>

NextEnc == EncodeIter \/ EncodeIterWindowed \/ QuantileOfExport

SpecEnc == InitEnc /\ [][NextEnc]_vars

\* ================================================================ claims
OutOfRange(v) == v > MaxVal \/ v < 0

\* What a caller can observe of a histogram.
Observable(h) ==
    [count |-> TotalCount(h), min |-> HistMin(h), mean |-> HistMean(h),
     metric |-> EncodeBars(Distribution(h))]

Recording(t) == op[t] = "RecordValue"

\* The number of RecordValue calls made so far.
CallsMade == calls

\* C1 (clamping law): a RecordValue(v) with v > maxVal or v < 0 changes the
\* current ring slot and the cumulative histogram exactly as recording
\* maxVal changes them, so every observable (counts, min, mean, exposition)
\* of the windowed and of the cumulative side is the one RecordValue(maxVal)
\* gives.
C1_ClampingLaw ==
    [][\A t \in Threads :
        (Recording(t) /\ OutOfRange(arg[t])) =>
            /\ (pc[t] = "body" /\ pc'[t] = "cumStore") =>
                 /\ slots' = [slots EXCEPT
                                 ![idx] = HistRecordValue(@, MaxVal)]
                 /\ Observable(Merge(slots')) =
                      Observable(HistRecordValue(Merge(slots), MaxVal))
            /\ (pc[t] = "cumStore" /\ pc'[t] = "unlock") =>
                 /\ cumulative' = HistRecordValue(cumulative, MaxVal)
                 /\ Observable(cumulative') =
                      Observable(HistRecordValue(cumulative, MaxVal))]_vars

\* C1 witness: an out-of-range RecordValue has recorded into both sides.
C1_Witness ==
    \E t \in Threads :
        /\ Recording(t) /\ pc[t] = "unlock" /\ OutOfRange(arg[t])
        /\ cumulative[BucketOf(MaxVal)] > 0
        /\ slots[idx][BucketOf(MaxVal)] > 0

\* C2: the count every Total() returns is the number of RecordValue calls
\* made (all of which have returned), and that number never decreases, so
\* neither does the count from one Total() to the next.
C2_TotalCountsCalls ==
    [][/\ returned' >= returned
       /\ \A t \in Threads :
            (op[t] = "Total" /\ pc[t] = "body" /\ pc'[t] = "unlock") =>
                /\ ret'[t].count = returned
                /\ ret'[t].count = CallsMade]_vars

\* C2 witness: a Total() that returns 2, after two calls and a rotation.
C2_Witness ==
    \E t \in Threads :
        /\ op[t] = "Total" /\ pc[t] = "unlock"
        /\ ret[t].count = 2 /\ returned = 2
        /\ lastRotation > 0

\* C3 (no lost updates): whenever no call is in progress the cumulative
\* count is the number of RecordValue calls the threads have made between
\* them, however the calls are split among the threads and interleaved;
\* once all MaxRecords calls are made (M by each of N threads when
\* MaxRecords = N * M) it is MaxRecords.
C3_NoLostUpdates ==
    (\A t \in Threads : pc[t] = "idle") =>
        /\ TotalCount(cumulative) = CallsMade
        /\ CallsMade = MaxRecords => TotalCount(cumulative) = MaxRecords

\* C3 witness: all the calls have been made and have returned.
C3_Witness ==
    /\ \A t \in Threads : pc[t] = "idle"
    /\ CallsMade = MaxRecords
    /\ TotalCount(cumulative) = MaxRecords

WindowedCount == TotalCount(Merge(slots))

\* C4 (window eviction): once WindowedHistogramWrapNum rotations have
\* happened since a sample last went into the ring, the merged ring holds
\* no sample, and a TotalWindowed() then returns count 0.
C4_WindowEviction ==
    rotsSinceRec >= WindowedHistogramWrapNum =>
        /\ WindowedCount = 0
        /\ (op[1] = "TotalWindowed" /\ pc[1] = "unlock") => ret[1].count = 0

\* C4 witness: samples were recorded, the ring has since been rotated W
\* times, and TotalWindowed() returns 0.
C4_Witness ==
    /\ TotalCount(cumulative) > 0
    /\ rotsSinceRec >= WindowedHistogramWrapNum
    /\ op[1] = "TotalWindowed" /\ pc[1] = "unlock"
    /\ ret[1].count = 0

\* The histogram has not been touched for two sub-window durations.
QuietTwoIntervals == now - lastOp >= 2 * TickInterval

\* C5: with samples recorded, a TotalWindowed() that comes after at least
\* two sub-window durations without any operation returns a windowed count
\* of 0, the cumulative count still being the number of recorded samples.
C5_QuietWindowIsEmpty ==
    [][(/\ op[1] = "TotalWindowed" /\ pc[1] = "body" /\ pc'[1] = "unlock"
        /\ TotalCount(cumulative) > 0
        /\ QuietTwoIntervals) =>
            /\ ret'[1].count = 0
            /\ TotalCount(cumulative') = returned]_vars

\* C6: TotalWindowed() and MeanWindowed() rotate the ring when a rotation
\* is due, and return the totals or the mean of the ring after that
\* rotation.
C6_WindowedReadsRotateFirst ==
    [][\A t \in Threads :
        (pc[t] = "body" /\ pc'[t] = "unlock") =>
            /\ op[t] = "TotalWindowed" =>
                 /\ IsDue(now, lastRotation) =>
                       /\ slots' = RotateSlots(slots, idx)
                       /\ idx' = RotateIdx(idx)
                       /\ lastRotation' = now
                 /\ ret'[t].count = TotalCount(Merge(slots'))
            /\ op[t] = "MeanWindowed" =>
                 /\ IsDue(now, lastRotation) =>
                       /\ slots' = RotateSlots(slots, idx)
                       /\ idx' = RotateIdx(idx)
                       /\ lastRotation' = now
                 /\ ret'[t].mean = HistMean(Merge(slots'))]_vars

\* A thread is inside the critical section of a method.
InCS(t) == pc[t] # "idle"

\* A sample is in the ring and not yet in the cumulative histogram.
PartialRecord == \E t \in Threads : Recording(t) /\ pc[t] = "cumStore"

\* The ticker has moved on and the ring has not been rotated yet.
PartialRotate == \E t \in Threads : op[t] = "Tick" /\ pc[t] = "rotate"

\* C7: the critical sections exclude each other; while a read or export
\* holds the lock no RecordValue is half done (every sample is in the ring
\* and in the cumulative histogram or in neither: the cumulative count is
\* the number of calls that returned, and no bucket of the merged ring
\* exceeds the cumulative one) and no Tick is half done; and what the read
\* returns is what it would return run alone after the calls that
\* returned before it.
C7_Serialized ==
    /\ \A t \in Threads : \A u \in Threads :
          (InCS(t) /\ InCS(u)) => t = u
    /\ \A t \in Threads :
          (op[t] \in ReadOps /\ InCS(t)) =>
              /\ ~PartialRecord
              /\ ~PartialRotate
              /\ TotalCount(cumulative) = returned
              /\ \A b \in Buckets : Merge(slots)[b] <= cumulative[b]
              /\ (pc[t] = "unlock" /\ op[t] = "Total") =>
                    ret[t] = TotalResult(cumulative)
              /\ (pc[t] = "unlock" /\ op[t] = "TotalWindowed") =>
                    ret[t] = TotalResult(Merge(slots))
              /\ (pc[t] = "unlock" /\ op[t] = "MeanWindowed") =>
                    ret[t].mean = HistMean(Merge(slots))
              /\ (pc[t] = "unlock" /\ op[t] = "ToPrometheusMetric") =>
                    ret[t].SampleCount = returned
              /\ (pc[t] = "unlock" /\ op[t] = "ToPrometheusMetricWindowed") =>
                    ret[t].SampleCount = WindowedCount

\* C7 witness: an export returns after another thread's RecordValue and a
\* rotation, while that thread has a further call to make.
C7_Witness ==
    \E t \in Threads : \E u \in Threads :
        /\ t # u
        /\ op[t] = "ToPrometheusMetricWindowed" /\ pc[t] = "unlock"
        /\ pc[u] = "idle" /\ returned = 1 /\ calls = 1
        /\ lastRotation > 0
        /\ ret[t].SampleCount = 1

\* The bucket list ascends in upper bound, never descends in cumulative
\* count, and ends on the sample count.
WellFormedMetric(m) ==
    /\ \A i \in 1..Len(m.Bucket) : \A j \in 1..Len(m.Bucket) :
          i < j => /\ m.Bucket[i].UpperBound < m.Bucket[j].UpperBound
                   /\ m.Bucket[i].CumulativeCount <= m.Bucket[j].CumulativeCount
    /\ Len(m.Bucket) > 0 =>
          m.Bucket[Len(m.Bucket)].CumulativeCount = m.SampleCount

Exporting(t) ==
    /\ op[t] \in {"ToPrometheusMetric", "ToPrometheusMetricWindowed"}
    /\ pc[t] = "unlock"

\* C8: every record ToPrometheusMetric and ToPrometheusMetricWindowed
\* return has its buckets in increasing order of upper bound, with
\* non-decreasing cumulative counts, the last of which is the sample count.
C8_ExpositionWellFormed ==
    \A t \in Threads : Exporting(t) => WellFormedMetric(ret[t])

\* C8 witness: a windowed export returns two buckets, an empty bar
\* skipped between them, the second holding both samples.
C8_Witness ==
    \E t \in Threads :
        /\ op[t] = "ToPrometheusMetricWindowed" /\ pc[t] = "unlock"
        /\ Len(ret[t].Bucket) = 2
        /\ ret[t].Bucket[1] = [CumulativeCount |-> 1, UpperBound |-> 0]
        /\ ret[t].Bucket[2] = [CumulativeCount |-> 2, UpperBound |-> 3]

\* The bars among the first n with a count.
NonZero(bars, n) == {i \in 1..n : bars[i].Count # 0}

RECURSIVE CountOfBars(_, _)
CountOfBars(bars, n) ==
    IF n = 0 THEN 0 ELSE bars[n].Count + CountOfBars(bars, n - 1)

RECURSIVE SumOfBars(_, _)
SumOfBars(bars, n) ==
    IF n = 0 THEN 0
    ELSE bars[n].To * bars[n].Count + SumOfBars(bars, n - 1)

\* m is the exposition of the first n bars: one bucket per bar with a
\* count, in the order of the bars, each with the count of all bars up to
\* it and its bar's upper bound; the count and the sum of all n bars.
EncodesBars(m, bars, n) ==
    /\ Len(m.Bucket) = Cardinality(NonZero(bars, n))
    /\ \A i \in NonZero(bars, n) :
          m.Bucket[Cardinality(NonZero(bars, i))] =
              [CumulativeCount |-> CountOfBars(bars, i),
               UpperBound |-> bars[i].To]
    /\ m.SampleCount = CountOfBars(bars, n)
    /\ m.SampleSum = SumOfBars(bars, n)

\* C9: for every ascending sequence of bars, after any number of
\* iterations either exposition loop has emitted exactly one bucket per
\* bar with a count and none for the others, each with the running count
\* and the bar's upper bound; sampleCount is the sum of the counts and
\* sampleSum the sum of upperBound * count.
C9_EncoderExact ==
    /\ EncodesBars(enc.out, enc.bars, enc.n)
    /\ EncodesBars(enc.outw, enc.bars, enc.nw)

\* C9 witness: both loops are through MaxBars bars, one of them empty
\* and lying between two that are not.
C9_Witness ==
    /\ Len(enc.bars) >= 3
    /\ enc.n = Len(enc.bars) /\ enc.nw = Len(enc.bars)
    /\ enc.bars[1].Count > 0 /\ enc.bars[2].Count = 0 /\ enc.bars[3].Count > 0
    /\ Len(enc.out.Bucket) = 2 /\ Len(enc.outw.Bucket) = 2

\* C10: the sample count ToPrometheusMetric returns is the number of
\* RecordValue calls made; after exactly one, the bucket list has one
\* entry, with cumulative count 1.
C10_CumulativeExposition ==
    \A t \in Threads :
        (op[t] = "ToPrometheusMetric" /\ pc[t] = "unlock") =>
            /\ ret[t].SampleCount = CallsMade
            /\ CallsMade = 1 =>
                  /\ Len(ret[t].Bucket) = 1
                  /\ ret[t].Bucket[1].CumulativeCount = 1
                  /\ ret[t].SampleCount = 1

\* C10 witness: one in-range value recorded and since rotated out of the
\* ring; the cumulative exposition still has its one bucket.
C10_Witness ==
    \E t \in Threads :
        /\ op[t] = "ToPrometheusMetric" /\ pc[t] = "unlock"
        /\ CallsMade = 1
        /\ cumulative[BucketOf(2)] = 1
        /\ WindowedCount = 0
        /\ Len(ret[t].Bucket) = 1

\* C11: the two exposition variants encode alike: whenever the cumulative
\* histogram and the merged ring hold the same count in every bucket, what
\* ToPrometheusMetric returns is what ToPrometheusMetricWindowed returns on
\* that ring, and the other way round: the same bucket list, sample count
\* and sample sum.
C11_VariantsEncodeAlike ==
    \A t \in Threads :
        (pc[t] = "unlock" /\ cumulative = Merge(slots)) =>
            /\ op[t] = "ToPrometheusMetric" =>
                  ret[t] = EncodeBarsWindowed(PrometheusBarsWindowed(slots))
            /\ op[t] = "ToPrometheusMetricWindowed" =>
                  ret[t] = EncodeBars(PrometheusBars(cumulative))

\* C11 witness: a windowed export of a ring that holds what the cumulative
\* histogram holds, two samples with empty bars before and between them.
C11_Witness ==
    \E t \in Threads :
        /\ op[t] = "ToPrometheusMetricWindowed" /\ pc[t] = "unlock"
        /\ cumulative = Merge(slots)
        /\ cumulative[BucketOf(1)] = 1 /\ cumulative[BucketOf(MaxVal)] = 1
        /\ Len(ret[t].Bucket) = 2
        /\ Len(PrometheusBars(cumulative)) > 2

\* The step rotates the ring: Current moves to another slot.
Rotates == idx' # idx

\* C12: the cumulative histogram is never reset: a step that rotates the
\* ring, in Tick() or in the lazy check of a read or an export, or that
\* moves the ticker on, leaves every bucket of the cumulative histogram as
\* it was, and no step at all makes a bucket of it smaller, so its count
\* never decreases.
C12_CumulativeNeverReset ==
    [][/\ (Rotates \/ lastRotation' # lastRotation) =>
              cumulative' = cumulative
       /\ \A b \in Buckets : cumulative'[b] >= cumulative[b]
       /\ TotalCount(cumulative') >= TotalCount(cumulative)]_vars

\* C12 witness: every sample recorded has been rotated out of the ring, the
\* last rotation forced by a Tick(), and is still in the cumulative
\* histogram.
C12_Witness ==
    \E t \in Threads :
        /\ op[t] = "Tick" /\ pc[t] = "unlock"
        /\ TotalCount(cumulative) = MaxRecords
        /\ WindowedCount = 0

\* The slots of the ring that are not Current.
Closed == Slots \ {idx}

\* The step is the write of a RecordValue into the ring.
WritesRing(t) == Recording(t) /\ pc[t] = "body" /\ pc'[t] = "cumStore"

\* C13 (ring invariant): exactly one slot is Current; a RecordValue adds
\* its sample to that slot and to no other; a slot that becomes Current is
\* empty at that moment, and as long as the ring is not rotated again no
\* step changes any of the other W-1 slots, so these hold only samples
\* recorded before the most recent rotation.
C13_RingInvariant ==
    [][/\ Cardinality({i \in Slots : i = idx}) = 1
       /\ Cardinality(Closed) = WindowedHistogramWrapNum - 1
       /\ \A t \in Threads :
             WritesRing(t) =>
                 /\ ~Rotates
                 /\ TotalCount(slots'[idx]) = TotalCount(slots[idx]) + 1
       /\ ~Rotates => \A i \in Closed : slots'[i] = slots[i]
       /\ Rotates => slots'[idx'] = NewHist]_vars

\* C13 witness: a RecordValue has written into Current after a rotation,
\* and the slot that was Current before holds an older sample.
C13_Witness ==
    \E t \in Threads :
        /\ Recording(t) /\ pc[t] = "cumStore"
        /\ idx = 1
        /\ TotalCount(slots[idx]) = 1
        /\ \E i \in Closed : TotalCount(slots[i]) = 1

\* C14: every Tick() moves the ticker on, so that the next tick time is
\* one interval after now, and then rotates the ring exactly once, whether
\* or not a rotation was due; nothing else of the histogram changes; and a
\* NextTick() returns the next tick time the ticker holds, which after a
\* Tick() is the updated one.
C14_TickRotatesOnce ==
    [][\A t \in Threads :
        /\ (op[t] = "Tick" /\ pc[t] = "body" /\ pc'[t] = "rotate") =>
              /\ lastRotation' = now
              /\ NextTick(lastRotation') = now + TickInterval
              /\ NextTick(lastRotation') >= NextTick(lastRotation)
              /\ UNCHANGED <<cumulative, slots, idx>>
        /\ (op[t] = "Tick" /\ pc[t] = "rotate" /\ pc'[t] = "unlock") =>
              /\ slots' = RotateSlots(slots, idx)
              /\ idx' = RotateIdx(idx)
              /\ UNCHANGED <<cumulative, lastRotation>>
        /\ (op[t] = "Tick" /\ pc[t] = "unlock" /\ pc'[t] = "idle") =>
              UNCHANGED hist
        /\ (op[t] = "NextTick" /\ pc[t] = "body" /\ pc'[t] = "unlock") =>
              /\ ret'[t].time = lastRotation + TickInterval
              /\ UNCHANGED hist]_vars

\* C14 witness: a NextTick() after two Tick()s at time 0, when no rotation
\* was due: both slots have been cleared, one by each Tick(), and the next
\* tick time reported is one interval after time 0.
C14_Witness ==
    \E t \in Threads :
        /\ op[t] = "NextTick" /\ pc[t] = "unlock"
        /\ now = 0 /\ idx = 0
        /\ TotalCount(cumulative) > 0
        /\ WindowedCount = 0
        /\ ret[t].time = TickInterval

\* The configuration is one the spec calls a misconfiguration.
Misconfigured == maxVal <= 0 \/ WindowedHistogramWrapNum < 2

\* C15: a histogram constructed with maxVal <= 0, or with a ring of fewer
\* than two slots, is rejected at construction: no RecordValue and no read
\* ever gets to act on one.
C15_MisconfigurationRejected ==
    Misconfigured => \A t \in Threads : pc[t] \in {"idle", "body"}

\* The fraction is the number 0 (and not 0/0).
IsZero(f) == f.num = 0 /\ f.den # 0

ZeroTotal == [kind |-> "total", count |-> 0, sum |-> 0]

\* C16 (empty-state reads): with no sample in the cumulative histogram
\* Total() returns count 0 and sum 0, Mean() returns 0 and
\* ToPrometheusMetric() an empty bucket list with sample count 0 and sample
\* sum 0; with no sample in the ring, be it fresh or rotated empty,
\* TotalWindowed(), MeanWindowed() and ToPrometheusMetricWindowed() return
\* the same.
C16_EmptyStateReads ==
    \A t \in Threads :
        pc[t] = "unlock" =>
            /\ TotalCount(cumulative) = 0 =>
                  /\ op[t] = "Total" => ret[t] = ZeroTotal
                  /\ op[t] = "Mean" => IsZero(ret[t].mean)
                  /\ op[t] = "ToPrometheusMetric" => ret[t] = EmptyMetric
            /\ WindowedCount = 0 =>
                  /\ op[t] = "TotalWindowed" => ret[t] = ZeroTotal
                  /\ op[t] = "MeanWindowed" => IsZero(ret[t].mean)
                  /\ op[t] = "ToPrometheusMetricWindowed" =>
                        ret[t] = EmptyMetric

\* C16 witness: MeanWindowed() returns 0 on a ring whose samples have all
\* been rotated out.
C16_Witness ==
    \E t \in Threads :
        /\ op[t] = "MeanWindowed" /\ pc[t] = "unlock"
        /\ TotalCount(cumulative) = MaxRecords
        /\ WindowedCount = 0
        /\ IsZero(ret[t].mean)

Asked(n) == enc.quant[n] # NotAsked

\* C17: of every complete windowed export with a sample count above 0,
\* the value at a quantile never decreases as the quantile grows from 0 to
\* 1, and the value at quantile 1 is the upper bound of the last bucket
\* emitted; of an export with sample count 0, the value at every quantile
\* is 0.
C17_QuantileFromExport ==
    /\ \A i \in QuantNums : \A j \in QuantNums :
          (i <= j /\ Asked(i) /\ Asked(j)) => enc.quant[i] <= enc.quant[j]
    /\ (Asked(MaxQuantDen) /\ enc.outw.SampleCount > 0) =>
          enc.quant[MaxQuantDen] =
              enc.outw.Bucket[Len(enc.outw.Bucket)].UpperBound
    /\ enc.outw.SampleCount = 0 =>
          \A i \in QuantNums : Asked(i) => enc.quant[i] = 0

\* C17 witness: every quantile has been asked of an export with three
\* buckets, and the values at quantile 0 and at quantile 1 differ.
C17_Witness ==
    /\ \A i \in QuantNums : Asked(i)
    /\ Len(enc.outw.Bucket) = 3
    /\ enc.quant[0] < enc.quant[MaxQuantDen]

\* C18: RecordValue performs no rotation check: none of its steps moves
\* Current, changes a slot other than Current or changes the ticker, also
\* when a rotation is due; its first step adds one to the count of Current
\* and its second adds one to the count of the cumulative histogram.
C18_RecordValueNeverRotates ==
    [][\A t \in Threads :
        (Recording(t) /\ pc'[t] # pc[t]) =>
            /\ UNCHANGED <<idx, lastRotation>>
            /\ \A i \in Closed : slots'[i] = slots[i]
            /\ WritesRing(t) =>
                  /\ TotalCount(slots'[idx]) = TotalCount(slots[idx]) + 1
                  /\ cumulative' = cumulative
            /\ (pc[t] = "cumStore" /\ pc'[t] = "unlock") =>
                  /\ TotalCount(cumulative') = TotalCount(cumulative) + 1
                  /\ slots' = slots
            /\ (pc[t] = "unlock" /\ pc'[t] = "idle") =>
                  UNCHANGED <<cumulative, slots>>]_vars

\* C18 witness: a second RecordValue has gone into the slot of the first,
\* two sub-window durations after the histogram was made and with the
\* ticker still where it started.
C18_Witness ==
    \E t \in Threads :
        /\ Recording(t) /\ pc[t] = "unlock"
        /\ now >= 2 * TickInterval /\ lastRotation = 0 /\ idx = 0
        /\ IsDue(now, lastRotation)
        /\ TotalCount(slots[idx]) = 2
        /\ TotalCount(cumulative) = 2

\* The step is the lazy rotation check of t's method, and a rotation is due.
LazyRotation(t) ==
    /\ op[t] \in {"Inspect", "ToPrometheusMetric",
                  "ToPrometheusMetricWindowed"}
    /\ pc[t] = "body" /\ pc'[t] = "unlock"
    /\ IsDue(now, lastRotation)

\* The step is the rotation of t's Tick(), the ticker having been moved on
\* by the step before.
ForcedRotation(t) == op[t] = "Tick" /\ pc[t] = "rotate" /\ pc'[t] = "unlock"

\* C19: a rotation, lazy or forced, makes the slot after Current
\* (cyclically) the new Current and leaves it empty, and leaves every other
\* slot as it was: exactly one slot is cleared; a lazy rotation sets the last
\* rotation time to now, a forced one has set it when its Tick() moved the
\* ticker on; and no other step moves Current.
C19_RotationClearsNextSlot ==
    [][/\ \A t \in Threads :
             (LazyRotation(t) \/ ForcedRotation(t)) =>
                 /\ idx' = (idx + 1) % WindowedHistogramWrapNum
                 /\ slots'[idx'] = NewHist
                 /\ \A i \in Slots \ {idx'} : slots'[i] = slots[i]
                 /\ LazyRotation(t) => lastRotation' = now
                 /\ ForcedRotation(t) => lastRotation' = lastRotation
       /\ \A t \in Threads :
             (op[t] = "Tick" /\ pc[t] = "body" /\ pc'[t] = "rotate") =>
                 lastRotation' = now
       /\ Rotates =>
             \E t \in Threads : LazyRotation(t) \/ ForcedRotation(t)]_vars

\* C19 witness: an export has rotated a ring with a sample in either slot:
\* the new Current is empty and the other slot still holds its sample.
C19_Witness ==
    \E t \in Threads :
        /\ op[t] = "ToPrometheusMetricWindowed" /\ pc[t] = "unlock"
        /\ lastRotation = now /\ now = MaxTime
        /\ TotalCount(cumulative) = 2
        /\ slots[idx] = NewHist
        /\ \E i \in Closed : TotalCount(slots[i]) = 1

\* The step is the lazy rotation check of t's method.
LazyCheck(t) ==
    /\ op[t] \in {"Inspect", "ToPrometheusMetric",
                  "ToPrometheusMetricWindowed"}
    /\ pc[t] = "body" /\ pc'[t] = "unlock"

\* A full sub-window duration has passed since the last rotation.
SubWindowElapsed ==
    now - lastRotation >= Duration \div WindowedHistogramWrapNum

RECURSIVE SlotCountsUpTo(_, _)
SlotCountsUpTo(hs, i) ==
    IF i < 0 THEN 0 ELSE TotalCount(hs[i]) + SlotCountsUpTo(hs, i - 1)

\* The count of bucket b in the slots 0..i, added up.
RECURSIVE SlotBucketUpTo(_, _, _)
SlotBucketUpTo(hs, b, i) ==
    IF i < 0 THEN 0 ELSE hs[i][b] + SlotBucketUpTo(hs, b, i - 1)

\* C21: the windowed view is the sum of all W slots, Current included:
\* every bucket of the merged ring is the sum of that bucket over the
\* slots, the count TotalWindowed() returns, like the sample count of the
\* windowed export, is the sum of the counts of all slots, and as long as
\* fewer than W rotations have happened since a sample last went into the
\* ring, that count is at least 1.
C21_WindowedViewIsSumOfSlots ==
    /\ \A b \in Buckets :
          Merge(slots)[b] =
              SlotBucketUpTo(slots, b, WindowedHistogramWrapNum - 1)
    /\ (op[1] = "TotalWindowed" /\ pc[1] = "unlock") =>
          /\ ret[1].count =
                SlotCountsUpTo(slots, WindowedHistogramWrapNum - 1)
          /\ (/\ TotalCount(cumulative) > 0
              /\ rotsSinceRec <= WindowedHistogramWrapNum - 1) =>
                 ret[1].count >= 1
    /\ (op[1] = "ToPrometheusMetricWindowed" /\ pc[1] = "unlock") =>
          ret[1].SampleCount =
              SlotCountsUpTo(slots, WindowedHistogramWrapNum - 1)

\* C21 witness: TotalWindowed() counts a sample W-1 rotations after it
\* was recorded, when it lies in a slot that is not Current, together
\* with none in Current.
C21_Witness ==
    /\ op[1] = "TotalWindowed" /\ pc[1] = "unlock"
    /\ rotsSinceRec = WindowedHistogramWrapNum - 1
    /\ slots[idx] = NewHist
    /\ ret[1].count = 2

\* The reads that consult neither the ticker nor the exposition encoder.
PureReads == {"Total", "Min", "Mean", "TotalWindowed", "MeanWindowed"}

\* C22: Total, Min, Mean, TotalWindowed and MeanWindowed are pure but for
\* rotation: none of their steps changes the cumulative histogram, and
\* each leaves the ring (every slot and the index of Current) as it was or
\* as one rotation that was due leaves it; in particular the merge of the
\* windowed reads changes no slot.
C22_ReadsArePure ==
    [][\A t \in Threads :
        (op[t] \in PureReads /\ pc'[t] # pc[t]) =>
            /\ cumulative' = cumulative
            /\ \/ UNCHANGED <<slots, idx, lastRotation>>
               \/ /\ IsDue(now, lastRotation)
                  /\ slots' = RotateSlots(slots, idx)
                  /\ idx' = RotateIdx(idx)]_vars

\* C22 witness: MeanWindowed() has merged a ring with a sample in either
\* slot and returns their mean, the slots being what they were.
C22_Witness ==
    \E t \in Threads :
        /\ op[t] = "MeanWindowed" /\ pc[t] = "unlock"
        /\ \A i \in Slots : TotalCount(slots[i]) = 1
        /\ TotalCount(cumulative) = 2
        /\ ret[t].mean.den = 2

InCallback(t) == pc[t] = "callback"

\* C24: Inspect has released the lock when it calls the closure: a thread
\* in the closure does not hold the lock, so the methods the closure calls
\* get it like any other caller's; the lock is only ever held by a thread
\* inside a method's locked section, and whoever holds it, at top level or
\* from inside a closure, releases it again: time and again the lock is
\* free and no thread is inside a method, so every call returns with the
\* lock released.
C24_InspectNeverDeadlocks ==
    /\ [](\A t \in Threads : InCallback(t) => lock # t)
    /\ [](\A t \in Threads :
            lock = t => pc[t] \in {"body", "cumStore", "rotate", "unlock"})
    /\ []<>(/\ lock = NoThread
            /\ \A t \in Threads : pc[t] \in {"idle", "callback"})

\* C24 witness: a RecordValue called from inside a closure of Inspect has
\* the lock and has recorded, while another thread is in a closure too.
C24_Witness ==
    \E t \in Threads : \E u \in Threads :
        /\ t # u
        /\ depth[t] = 1 /\ Recording(t) /\ pc[t] = "unlock" /\ lock = t
        /\ InCallback(u)
        /\ TotalCount(cumulative) = 1

====
